---------------------------- MODULE Spec2Model ----------------------------
(***************************************************************************)
(* A model of cupy.linalg.einsum (src/cupy/linalg/einsum.py): the          *)
(* subscript parser/validator and the pipeline of view calculators.        *)
(*                                                                         *)
(* Strings are sequences of one-character strings.  Positions and axes     *)
(* keep Python's 0-based values (find returns -1 when nothing is found);   *)
(* they are shifted by one only where a TLA+ sequence is indexed.          *)
(* An array is a record [shape, dtype, data]: shape is the sequence of     *)
(* extents, dtype the name of the element type and data maps every index   *)
(* tuple (0-based components) to an integer.                               *)
(***************************************************************************)
EXTENDS Integers, Sequences, FiniteSets, TLC

\* ------------------------------------------------------------- bounds
\* longest raw expression drawn by Call
MaxLen == 5
\* most operands passed to one call
MaxOps == 2
\* highest rank of an operand passed to Call
MaxRank == 2
\* extent of every axis of an operand passed to Call
Extent == 2
\* longest subscript of the single-operand law inputs
MaxSub == 4
\* largest m, n, p of the matrix-product law inputs (m,n) x (n,p)
MaxM == 2
MaxN == 2
MaxP == 2

\* ------------------------------------------------------------ strings
Letters == {"i", "j", "k", "B"}
\* the characters Call draws a raw expression from
Alphabet == {"i", "B", ",", "-", ">", ".", " ", "$"}

\* ord(c) for the characters of the model
Code(c) ==
    CASE c = " " -> 32 [] c = "$" -> 36 [] c = "," -> 44 [] c = "-" -> 45
      [] c = "." -> 46 [] c = ">" -> 62 [] c = "B" -> 66
      [] c = "i" -> 105 [] c = "j" -> 106 [] c = "k" -> 107

\* all strings over chars of length at most n
Strings(chars, n) == UNION {[1..m -> chars] : m \in 0..n}

\* set(s)
CharSet(s) == {s[p] : p \in 1..Len(s)}

\* s.find(c): 0-based position of the first c, -1 when there is none
Find(s, c) ==
    IF c \in CharSet(s)
    THEN (CHOOSE p \in 1..Len(s) : s[p] = c /\ \A q \in 1..(p - 1) : s[q] # c) - 1
    ELSE -1

\* s.find('->')
FindArrow(s) ==
    LET hits == {p \in 1..(Len(s) - 1) : s[p] = "-" /\ s[p + 1] = ">"}
    IN  IF hits = {} THEN -1
        ELSE (CHOOSE p \in hits : \A q \in hits : p <= q) - 1

\* s.replace(c, '')
Remove(s, c) ==
    LET Keep(x) == x # c
    IN  SelectSeq(s, Keep)

\* collections.Counter(s)[c]
Count(s, c) == Cardinality({p \in 1..Len(s) : s[p] = c})

\* s[:axis] + s[axis + 1:]  (axis 0-based)
DropAt(s, axis) == SubSeq(s, 1, axis) \o SubSeq(s, axis + 2, Len(s))

\* s.split(',')
RECURSIVE Split(_)
Split(s) ==
    LET pos == Find(s, ",")
    IN  IF pos = -1 THEN <<s>>
        ELSE <<SubSeq(s, 1, pos)>> \o Split(SubSeq(s, pos + 2, Len(s)))

\* ''.join(sorted(list(S))): the characters of S ascending by character code
RECURSIVE Sorted(_)
Sorted(S) ==
    IF S = {} THEN <<>>
    ELSE LET lo == CHOOSE c \in S : \A d \in S : Code(c) <= Code(d)
         IN  <<lo>> \o Sorted(S \ {lo})

\* ''.join(subscripts)
RECURSIVE Join(_)
Join(ss) == IF ss = <<>> THEN <<>> ELSE Head(ss) \o Join(Tail(ss))

\* the distinct characters of s in order of first occurrence
RECURSIVE Distinct(_)
Distinct(s) ==
    IF s = <<>> THEN <<>> ELSE <<Head(s)>> \o Distinct(Remove(Tail(s), Head(s)))

\* IsAscending comparing with the list sorted in reverse
IsDescending(xs) == \A p \in 1..(Len(xs) - 1) : xs[p] >= xs[p + 1]

\* sorted(xs) == xs for a list of integers
IsAscending(xs) == \A p \in 1..(Len(xs) - 1) : xs[p] <= xs[p + 1]

\* ------------------------------------------------------------- arrays
\* the index tuples of an array of the given shape
Indices(shape) ==
    {idx \in [DOMAIN shape -> UNION {0..(shape[p] - 1) : p \in DOMAIN shape}] :
        \A p \in DOMAIN shape : idx[p] < shape[p]}

Ndim(a) == Len(a.shape)

\* the element types, and numpy.result_type of two of them
DTypes == {"int32", "int64", "float32", "float64"}
IsFloat(t) == t \in {"float32", "float64"}
Promote(t, u) ==
    IF t = u THEN t
    ELSE IF IsFloat(t) \/ IsFloat(u) THEN "float64"
    ELSE "int64"

\* numpy.result_type(*arrays) of a non-empty list
RECURSIVE ResultType(_)
ResultType(arrays) ==
    IF Len(arrays) = 1 THEN arrays[1].dtype
    ELSE Promote(arrays[1].dtype, ResultType(Tail(arrays)))

\* a.astype(dtype): the elements of the model are integers, which every
\* element type holds unchanged
AsType(a, dtype) == [a EXCEPT !.dtype = dtype]

\* the positions 0..n-1 outside S, ascending
Others(n, S) ==
    LET Keep(p) == p \notin S
    IN  SelectSeq([p \in 1..n |-> p - 1], Keep)

Min(x, y) == IF x <= y THEN x ELSE y

\* a.diagonal(0, axis1, axis2): both axes removed, the diagonal appended last
Diagonal(a, axis1, axis2) ==
    LET rest == Others(Ndim(a), {axis1, axis2})
        n == Min(a.shape[axis1 + 1], a.shape[axis2 + 1])
        shape == [q \in 1..Len(rest) |-> a.shape[rest[q] + 1]] \o <<n>>
        Src(idx) ==
            [p \in 1..Ndim(a) |->
                IF p - 1 \in {axis1, axis2} THEN idx[Len(idx)]
                ELSE idx[CHOOSE q \in 1..Len(rest) : rest[q] = p - 1]]
    IN  [shape |-> shape, dtype |-> a.dtype,
         data |-> [idx \in Indices(shape) |-> a.data[Src(idx)]]]

\* a.transpose(axes): axis k of the result is axis axes[k] of a
Transpose(a, axes) ==
    LET shape == [k \in 1..Len(axes) |-> a.shape[axes[k] + 1]]
        Src(idx) ==
            [p \in 1..Ndim(a) |-> idx[CHOOSE k \in 1..Len(axes) : axes[k] = p - 1]]
    IN  [shape |-> shape, dtype |-> a.dtype,
         data |-> [idx \in Indices(shape) |-> a.data[Src(idx)]]]

\* cupy.rollaxis(a, axis, start)
RollAxis(a, axis, start) ==
    LET n == Ndim(a)
        ax == IF axis < 0 THEN axis + n ELSE axis
        st0 == IF start < 0 THEN start + n ELSE start
        st == IF ax < st0 THEN st0 - 1 ELSE st0
        rest == Others(n, {ax})
        axes == SubSeq(rest, 1, st) \o <<ax>> \o SubSeq(rest, st + 1, Len(rest))
    IN  IF ax = st THEN a ELSE Transpose(a, axes)

\* cupy.tensordot(a, b, axes=0): the outer product
Tensordot0(a, b) ==
    LET shape == a.shape \o b.shape
    IN  [shape |-> shape, dtype |-> Promote(a.dtype, b.dtype),
         data |-> [idx \in Indices(shape) |->
                     a.data[SubSeq(idx, 1, Ndim(a))]
                       * b.data[SubSeq(idx, Ndim(a) + 1, Len(idx))]]]

RECURSIVE SumOver(_, _)
SumOver(f, S) ==
    IF S = {} THEN 0
    ELSE LET x == CHOOSE y \in S : TRUE
         IN  f[x] + SumOver(f, S \ {x})

\* a.sum(axis=axes): the axes of the set are reduced in one call; a sum of
\* int32 elements accumulates in (and returns) int64
SumAxes(a, axes) ==
    LET rest == Others(Ndim(a), axes)
        shape == [q \in 1..Len(rest) |-> a.shape[rest[q] + 1]]
        Fibre(idx) ==
            {src \in Indices(a.shape) : \A q \in 1..Len(rest) : src[rest[q] + 1] = idx[q]}
    IN  [shape |-> shape,
         dtype |-> IF a.dtype = "int32" THEN "int64" ELSE a.dtype,
         data |-> [idx \in Indices(shape) |-> SumOver(a.data, Fibre(idx))]]

\* the flat (row-major) position of an index tuple
RECURSIVE Flat(_, _)
Flat(shape, idx) ==
    IF Len(shape) = 0 THEN 0
    ELSE LET n == Len(shape)
         IN  Flat(SubSeq(shape, 1, n - 1), SubSeq(idx, 1, n - 1)) * shape[n] + idx[n]

\* an array of the given shape holding base + flat position: distinct elements
Arange(shape, base) ==
    [shape |-> shape, dtype |-> "int64",
     data |-> [idx \in Indices(shape) |-> base + Flat(shape, idx)]]

\* -------------------------------------------------------------- state
VARIABLES
    pc,                     \* where einsum stands
    subscripts,             \* the local of that name (raw, then space-stripped)
    ioperands,              \* the operands as the caller passed them
    converted_inputs,       \* the operands converted to the common dtype
    input_subscripts,       \* the input side of the expression
    output_subscript,       \* the explicit or derived output subscript
    input_subscripts_list,  \* one subscript per operand
    i,                      \* index of the operand loop
    i_parsers,              \* the finished per-operand calculators
    calc,                   \* the calculator of the current stage
    result,                 \* the returned array
    err,                    \* the exception raised, if any
    ops,                    \* the array operations issued so far, in order
    stages                  \* the calculators invoked so far, in order

vars == <<pc, subscripts, ioperands, converted_inputs, input_subscripts,
          output_subscript, input_subscripts_list, i, i_parsers, calc, result,
          err, ops, stages>>

\* an exception: its kind, the character its message names (or "") and the
\* operand index its message names (or -1)
Error(kind, pickup, operand) == [kind |-> kind, pickup |-> pickup, operand |-> operand]
NoError == Error("none", "", -1)
NoArray == [shape |-> <<>>, dtype |-> "none", data |-> <<>>]

\* a calculator object: the fields of all four calculator classes; subscript
\* is self.subscript, and self.input_subscript of a TransposedViewCalculator
Calc(kind, ioperand, subscript, res) ==
    [kind |-> kind, ioperand |-> ioperand, subscript |-> subscript,
     result |-> res, labels |-> {}, count_dict |-> <<>>, first |-> -1,
     axes |-> <<>>]
NoCalc == Calc("none", NoArray, <<>>, NoArray)

\* ------------------------------------------- SingleViewCalculator
\* the 0-based positions of label in subscript, ascending: axes_to_diag
AxesToDiag(subscript, label) ==
    LET Hit(p) == subscript[p + 1] = label
    IN  SelectSeq([p \in 1..Len(subscript) |-> p - 1], Hit)

Reversed(xs) == [p \in 1..Len(xs) |-> xs[Len(xs) + 1 - p]]

\* __init__ and the first two statements of __call__; labels holds the
\* labels the loop over self.labels has not visited yet
SingleViewCalculator(ioperand, subscript) ==
    [Calc("single", ioperand, subscript, ioperand) EXCEPT
        !.labels = CharSet(subscript),
        !.count_dict = [c \in CharSet(subscript) |-> Count(subscript, c)]]

\* one iteration of `for label in self.labels` up to the inner loop: a
\* label counted once is skipped, otherwise its axes are collected from the
\* current subscript
VisitLabel(c, label) ==
    IF c.count_dict[label] = 1
    THEN [c EXCEPT !.labels = @ \ {label}]
    ELSE LET axes_to_diag == AxesToDiag(c.subscript, label)
         IN  [c EXCEPT !.labels = @ \ {label},
                       !.first = axes_to_diag[1],
                       !.axes = Reversed(Tail(axes_to_diag))]

\* DiagonalOnce forgetting to rewrite the subscript
DiagonalOnceKeepsSubscript(c) ==
    LET axis == Head(c.axes)
    IN  [c EXCEPT
            !.result = RollAxis(Diagonal(c.result, axis, c.first), -1, c.first),
            !.axes = Tail(c.axes)]

\* DiagonalOnce leaving the diagonal axis last instead of rolling it back
DiagonalOnceNoRoll(c) ==
    LET axis == Head(c.axes)
    IN  [c EXCEPT
            !.result = Diagonal(c.result, axis, c.first),
            !.subscript = DropAt(c.subscript, axis),
            !.axes = Tail(c.axes)]

\* DiagonalOnce dropping the first occurrence of the label, not the later one
DiagonalOnceDropsFirst(c) ==
    LET axis == Head(c.axes)
    IN  [c EXCEPT
            !.result = RollAxis(Diagonal(c.result, axis, c.first), -1, c.first),
            !.subscript = DropAt(c.subscript, c.first),
            !.axes = Tail(c.axes)]

\* DiagonalOnce rolling the diagonal axis to the front, not to axes_to_diag[0]
DiagonalOnceRollsToFront(c) ==
    LET axis == Head(c.axes)
    IN  [c EXCEPT
            !.result = RollAxis(Diagonal(c.result, axis, c.first), -1, 0),
            !.subscript = DropAt(c.subscript, axis),
            !.axes = Tail(c.axes)]

\* one iteration of `for axis in reversed(axes_to_diag[1:])`
DiagonalOnce(c) ==
    LET axis == Head(c.axes)
    IN  [c EXCEPT
            !.result = RollAxis(Diagonal(c.result, axis, c.first), -1, c.first),
            !.subscript = DropAt(c.subscript, axis),
            !.axes = Tail(c.axes)]

SingleFinished(c) == c.labels = {} /\ c.axes = <<>>

\* the inner loop of __call__ run to its end for the label just visited
RECURSIVE Drain(_)
Drain(c) == IF c.axes = <<>> THEN c ELSE Drain(DiagonalOnce(c))

\* __call__ with the label set iterated in the given order
RECURSIVE RunSingle(_, _)
RunSingle(c, order) ==
    IF order = <<>> THEN c
    ELSE RunSingle(Drain(VisitLabel(c, Head(order))), Tail(order))

\* the orders in which a set of labels can be iterated
LabelOrders(labels) ==
    {order \in [1..Cardinality(labels) -> labels] :
        \A p, q \in 1..Cardinality(labels) : order[p] = order[q] => p = q}

\* ------------------------------------------- SummedViewCalculator
LabelToSummed(input_subscript, output) == CharSet(input_subscript) \ CharSet(output)

\* AxesToSummed counting the axes from 1
AxesToSummedFromOne(input_subscript, output) ==
    LET Hit(p) == input_subscript[p] \in LabelToSummed(input_subscript, output)
    IN  SelectSeq([p \in 1..Len(input_subscript) |-> p], Hit)

AxesToSummed(input_subscript, output) ==
    LET Hit(p) == input_subscript[p + 1] \in LabelToSummed(input_subscript, output)
    IN  SelectSeq([p \in 1..Len(input_subscript) |-> p - 1], Hit)

\* SummedResult returning the sum in the element type sum() gave it
SummedResultUncast(ioperand, axes_to_summed) ==
    IF axes_to_summed # <<>>
    THEN SumAxes(ioperand, CharSet(axes_to_summed))
    ELSE ioperand

\* the cast of line 69: astype is handed the input array, whose dtype it takes
SummedResult(ioperand, axes_to_summed) ==
    IF axes_to_summed # <<>>
    THEN AsType(SumAxes(ioperand, CharSet(axes_to_summed)), ioperand.dtype)
    ELSE ioperand

\* self.subscript with every label of label_to_summed replaced by ''
SummedSubscript(input_subscript, output) ==
    LET Keep(c) == c \notin LabelToSummed(input_subscript, output)
    IN  SelectSeq(input_subscript, Keep)

SummedViewCalculator(ioperand, input_subscript, output) ==
    Calc("summed", ioperand,
         SummedSubscript(input_subscript, output),
         SummedResult(ioperand, AxesToSummed(input_subscript, output)))

\* ---------------------------------------- TransposedViewCalculator
\* the two assertions of __init__
TransposedAsserts(input_subscript, output) ==
    /\ Len(input_subscript) = Len(output)
    /\ CharSet(input_subscript) = CharSet(output)

\* TransposeOrders looking the labels up in the output subscript
TransposeOrdersInOutput(input_subscript, output) ==
    [k \in 1..Len(output) |-> Find(output, output[k])]

TransposeOrders(input_subscript, output) ==
    [k \in 1..Len(output) |-> Find(input_subscript, output[k])]

TransposedResult(ioperand, input_subscript, output) ==
    LET transpose_orders == TransposeOrders(input_subscript, output)
    IN  IF IsAscending(transpose_orders) THEN ioperand
        ELSE Transpose(ioperand, transpose_orders)

\* ------------------------------------------ CombinedViewCalculator
\* CombinedResult with the two factors of every tensordot exchanged
RECURSIVE CombinedResultSwapped(_, _)
CombinedResultSwapped(acc, rest) ==
    IF rest = <<>> THEN acc
    ELSE CombinedResultSwapped(Tensordot0(Head(rest), acc), Tail(rest))

RECURSIVE CombinedResult(_, _)
CombinedResult(acc, rest) ==
    IF rest = <<>> THEN acc
    ELSE CombinedResult(Tensordot0(acc, Head(rest)), Tail(rest))

CombinedViewCalculator(ioperands_, subscripts_) ==
    Calc("combined", NoArray, Join(subscripts_),
         CombinedResult(Head(ioperands_), Tail(ioperands_)))

\* --------------------------------------------------------- einsum
\* get_dummy_labels with the threshold one too high
get_dummy_labels_over_two(label_list) ==
    {label \in CharSet(label_list) : Count(label_list, label) > 2}

get_dummy_labels(label_list) ==
    {label \in CharSet(label_list) : Count(label_list, label) >= 2}

\* CallOutcomes looking for irregular characters before the ellipsis
CallOutcomesIrregularFirst(raw) ==
    LET stripped == Remove(raw, " ")
        irregular_chars == (CharSet(stripped) \ Letters) \ {"-", ">", ","}
    IN  IF irregular_chars # {}
        THEN {[pc |-> "error", subscripts |-> stripped,
               err |-> Error("invalid_subscript", pickup, -1)] :
                 pickup \in irregular_chars}
        ELSE {[pc |-> "convert", subscripts |-> stripped, err |-> NoError]}

\* CallOutcomes taking the comma for an irregular character
CallOutcomesCommaIrregular(raw) ==
    LET stripped == Remove(raw, " ")
        irregular_chars == (CharSet(stripped) \ Letters) \ {"-", ">"}
    IN  IF "." \in CharSet(raw)
        THEN {[pc |-> "error", subscripts |-> raw, err |-> Error("ellipsis", "", -1)]}
        ELSE IF irregular_chars # {}
        THEN {[pc |-> "error", subscripts |-> stripped,
               err |-> Error("invalid_subscript", pickup, -1)] :
                 pickup \in irregular_chars}
        ELSE {[pc |-> "convert", subscripts |-> stripped, err |-> NoError]}

\* lines 165-174: the outcomes of the checks on the raw expression
CallOutcomes(raw) ==
    LET stripped == Remove(raw, " ")
        irregular_chars == (CharSet(stripped) \ Letters) \ {"-", ">", ","}
    IN  IF "." \in CharSet(raw)
        THEN {[pc |-> "error", subscripts |-> raw, err |-> Error("ellipsis", "", -1)]}
        ELSE IF irregular_chars # {}
        THEN {[pc |-> "error", subscripts |-> stripped,
               err |-> Error("invalid_subscript", pickup, -1)] :
                 pickup \in irregular_chars}
        ELSE {[pc |-> "convert", subscripts |-> stripped, err |-> NoError]}

\* lines 184-190
MalformedArrow(s) ==
    LET pos == Find(s, "-")
    IN  \/ pos = Len(s) - 1
        \/ pos # -1 /\ s[pos + 2] # ">"

\* lines 192-200: the input side and the output subscript
InputSide(s) ==
    LET arrow_pos == FindArrow(s)
    IN  IF arrow_pos = -1 THEN s ELSE SubSeq(s, 1, arrow_pos)

\* ImplicitOutput joining the label set without sorting it
ImplicitOutputUnsorted(inputs) ==
    LET label_list == Remove(inputs, ",")
        Keep(c) == c \notin get_dummy_labels(label_list)
    IN  SelectSeq(Distinct(label_list), Keep)

ImplicitOutput(inputs) ==
    LET label_list == Remove(inputs, ",")
        out_label_set == CharSet(label_list) \ get_dummy_labels(label_list)
    IN  Sorted(out_label_set)

OutputSide(s) ==
    LET arrow_pos == FindArrow(s)
    IN  IF arrow_pos = -1 THEN ImplicitOutput(s)
        ELSE SubSeq(s, arrow_pos + 3, Len(s))

\* line 202
UnknownOutputLabels(inputs, output) == CharSet(output) \ CharSet(inputs)

\* RepeatedOutputLabels tolerating a label counted twice
RepeatedOutputLabelsOverTwo(output) ==
    {key \in CharSet(output) : Count(output, key) > 2}

\* lines 209-214: the keys of count_dict that are not counted once
RepeatedOutputLabels(output) == {key \in CharSet(output) : Count(output, key) # 1}

\* lines 184-222: the outcomes of parsing for n converted operands
ParseOutcomes(s, n) ==
    LET inputs == InputSide(s)
        output == OutputSide(s)
        list == Split(inputs)
        Out(pc_, e, ins, out, lst) ==
            [pc |-> pc_, err |-> e, input_subscripts |-> ins,
             output_subscript |-> out, input_subscripts_list |-> lst]
    IN  IF MalformedArrow(s)
        THEN {Out("error", Error("malformed_arrow", "", -1), <<>>, <<>>, <<>>)}
        ELSE IF FindArrow(s) # -1 /\ UnknownOutputLabels(inputs, output) # {}
        THEN {Out("error", Error("unknown_output_label", pickup, -1), inputs, output, <<>>) :
                pickup \in UnknownOutputLabels(inputs, output)}
        ELSE IF FindArrow(s) # -1 /\ RepeatedOutputLabels(output) # {}
        THEN {Out("error", Error("repeated_output_label", key, -1), inputs, output, <<>>) :
                key \in RepeatedOutputLabels(output)}
        ELSE IF Len(list) < n
        THEN {Out("error", Error("fewer_operands", "", -1), inputs, output, list)}
        ELSE IF Len(list) > n
        THEN {Out("error", Error("more_operands", "", -1), inputs, output, list)}
        ELSE {Out("operand", NoError, inputs, output, list)}

\* RankError without the check of line 231
RankErrorTooManyOnly(subscript, ioperand, k) ==
    IF Len(subscript) > Ndim(ioperand) THEN Error("too_many_subscripts", "", k)
    ELSE NoError

\* lines 228-234: the rank check of one operand
RankError(subscript, ioperand, k) ==
    IF Len(subscript) > Ndim(ioperand) THEN Error("too_many_subscripts", "", k)
    ELSE IF Len(subscript) < Ndim(ioperand) THEN Error("more_dimensions", "", -1)
    ELSE NoError

\* the operand lists a call is made with: one to MaxOps arrays of rank at
\* most MaxRank, every axis of extent Extent, filled like shaped_arange
OperandShapes == UNION {[1..r -> {Extent}] : r \in 0..MaxRank}
OperandLists ==
    UNION {[1..n -> {Arange(shape, 1) : shape \in OperandShapes}] : n \in 1..MaxOps}

\* lines 176-182
ConvertAll(arrays) ==
    [k \in 1..Len(arrays) |-> AsType(arrays[k], ResultType(arrays))]

Init ==
    /\ pc = "call"
    /\ subscripts = <<>>
    /\ ioperands = <<>>
    /\ converted_inputs = <<>>
    /\ input_subscripts = <<>>
    /\ output_subscript = <<>>
    /\ input_subscripts_list = <<>>
    /\ i = 0
    /\ i_parsers = <<>>
    /\ calc = NoCalc
    /\ result = NoArray
    /\ err = NoError
    /\ ops = <<>>
    /\ stages = <<>>

\* lines 153-174: the expression is taken and its characters are checked
Call ==
    /\ pc = "call"
    /\ \E raw \in Strings(Alphabet, MaxLen) :
         \E o \in CallOutcomes(raw) :
            /\ pc' = o.pc
            /\ subscripts' = o.subscripts
            /\ err' = o.err
    /\ UNCHANGED <<ioperands, converted_inputs, input_subscripts, output_subscript,
                   input_subscripts_list, i, i_parsers, calc, result, ops, stages>>

\* lines 176-182: the operands are converted to their common element type
ConvertInputs ==
    /\ pc = "convert"
    /\ \E arrays \in OperandLists :
         /\ ioperands' = arrays
         /\ converted_inputs' = ConvertAll(arrays)
         /\ ops' = ops \o [k \in 1..Len(arrays) |-> "astype"]
    /\ pc' = "parse"
    /\ UNCHANGED <<subscripts, input_subscripts, output_subscript,
                   input_subscripts_list, i, i_parsers, calc, result, err, stages>>

\* lines 184-222: the arrow, the output subscript and the operand count
ParseSubscripts ==
    /\ pc = "parse"
    /\ \E o \in ParseOutcomes(subscripts, Len(converted_inputs)) :
         /\ pc' = o.pc
         /\ err' = o.err
         /\ input_subscripts' = o.input_subscripts
         /\ output_subscript' = o.output_subscript
         /\ input_subscripts_list' = o.input_subscripts_list
    /\ i' = 0
    /\ UNCHANGED <<subscripts, ioperands, converted_inputs, i_parsers, calc,
                   result, ops, stages>>

\* lines 225-237: the rank check of operand i and its SingleViewCalculator
OperandStage ==
    /\ pc = "operand"
    /\ LET subscript == input_subscripts_list[i + 1]
           ioperand == converted_inputs[i + 1]
           e == RankError(subscript, ioperand, i)
       IN  IF e # NoError
           THEN /\ pc' = "error"
                /\ err' = e
                /\ UNCHANGED <<calc, stages>>
           ELSE /\ pc' = "single"
                /\ calc' = SingleViewCalculator(ioperand, subscript)
                /\ stages' = Append(stages, "single")
                /\ UNCHANGED err
    /\ UNCHANGED <<subscripts, ioperands, converted_inputs, input_subscripts,
                   output_subscript, input_subscripts_list, i, i_parsers, result, ops>>

\* lines 31-37: the loop over the label set takes its next label, in any order
PickLabel ==
    /\ pc \in {"single", "single2"}
    /\ calc.axes = <<>>
    /\ \E label \in calc.labels : calc' = VisitLabel(calc, label)
    /\ UNCHANGED <<pc, subscripts, ioperands, converted_inputs, input_subscripts,
                   output_subscript, input_subscripts_list, i, i_parsers, result,
                   err, ops, stages>>

\* lines 38-42: one diagonal, rollaxis and subscript update
DiagonalStep ==
    /\ pc \in {"single", "single2"}
    /\ calc.axes # <<>>
    /\ calc' = DiagonalOnce(calc)
    /\ ops' = ops \o <<"diagonal", "rollaxis">>
    /\ UNCHANGED <<pc, subscripts, ioperands, converted_inputs, input_subscripts,
                   output_subscript, input_subscripts_list, i, i_parsers, result,
                   err, stages>>

\* line 238 and the loop header of line 225
OperandDone ==
    /\ pc = "single"
    /\ SingleFinished(calc)
    /\ i_parsers' = Append(i_parsers, calc)
    /\ i' = i + 1
    /\ pc' = IF i + 1 < Len(input_subscripts_list) THEN "operand" ELSE "combine"
    /\ UNCHANGED <<subscripts, ioperands, converted_inputs, input_subscripts,
                   output_subscript, input_subscripts_list, calc, result, err,
                   ops, stages>>

\* Combine sending a single operand through the outer product as well
CombineAlways ==
    /\ pc = "combine"
    /\ LET i_subscripts == [k \in 1..Len(i_parsers) |-> i_parsers[k].subscript]
           i_results == [k \in 1..Len(i_parsers) |-> i_parsers[k].result]
           combined == CombinedViewCalculator(i_results, i_subscripts)
       IN  /\ calc' = SingleViewCalculator(combined.result, combined.subscript)
           /\ ops' = ops \o [k \in 1..(Len(i_parsers) - 1) |-> "tensordot"]
           /\ stages' = stages \o <<"combined", "single">>
           /\ pc' = "single2"
    /\ UNCHANGED <<subscripts, ioperands, converted_inputs, input_subscripts,
                   output_subscript, input_subscripts_list, i, i_parsers, result, err>>

\* lines 240-248: two or more operands are combined and the second
\* SingleViewCalculator is made; one operand is taken as it is
Combine ==
    /\ pc = "combine"
    /\ IF Len(converted_inputs) >= 2
       THEN LET i_subscripts == [k \in 1..Len(i_parsers) |-> i_parsers[k].subscript]
                i_results == [k \in 1..Len(i_parsers) |-> i_parsers[k].result]
                combined == CombinedViewCalculator(i_results, i_subscripts)
            IN  /\ calc' = SingleViewCalculator(combined.result, combined.subscript)
                /\ ops' = ops \o [k \in 1..(Len(i_parsers) - 1) |-> "tensordot"]
                /\ stages' = stages \o <<"combined", "single">>
                /\ pc' = "single2"
       ELSE /\ calc' = i_parsers[1]
            /\ pc' = "sum"
            /\ UNCHANGED <<ops, stages>>
    /\ UNCHANGED <<subscripts, ioperands, converted_inputs, input_subscripts,
                   output_subscript, input_subscripts_list, i, i_parsers, result, err>>

\* Summed with the sum written into the caller's first operand (out=)
SummedIntoOperand ==
    /\ IF pc = "single2" THEN SingleFinished(calc) ELSE pc = "sum"
    /\ calc' = SummedViewCalculator(calc.result, calc.subscript, output_subscript)
    /\ ioperands' = IF AxesToSummed(calc.subscript, output_subscript) # <<>>
                    THEN [ioperands EXCEPT ![1] = calc'.result] ELSE ioperands
    /\ ops' = ops \o (IF AxesToSummed(calc.subscript, output_subscript) # <<>>
                      THEN <<"sum", "astype">> ELSE <<>>)
    /\ stages' = Append(stages, "summed")
    /\ pc' = "transpose"
    /\ UNCHANGED <<subscripts, converted_inputs, input_subscripts,
                   output_subscript, input_subscripts_list, i, i_parsers, result, err>>

\* lines 250-252
Summed ==
    /\ IF pc = "single2" THEN SingleFinished(calc) ELSE pc = "sum"
    /\ calc' = SummedViewCalculator(calc.result, calc.subscript, output_subscript)
    /\ ops' = ops \o (IF AxesToSummed(calc.subscript, output_subscript) # <<>>
                      THEN <<"sum", "astype">> ELSE <<>>)
    /\ stages' = Append(stages, "summed")
    /\ pc' = "transpose"
    /\ UNCHANGED <<subscripts, ioperands, converted_inputs, input_subscripts,
                   output_subscript, input_subscripts_list, i, i_parsers, result, err>>

\* lines 253-256
Transposed ==
    /\ pc = "transpose"
    /\ IF TransposedAsserts(calc.subscript, output_subscript)
       THEN /\ calc' = Calc("transposed", calc.result, calc.subscript,
                            TransposedResult(calc.result, calc.subscript, output_subscript))
            /\ result' = TransposedResult(calc.result, calc.subscript, output_subscript)
            /\ ops' = ops \o (IF IsAscending(TransposeOrders(calc.subscript, output_subscript))
                              THEN <<>> ELSE <<"transpose">>)
            /\ stages' = Append(stages, "transposed")
            /\ pc' = "done"
            /\ UNCHANGED err
       ELSE /\ pc' = "error"
            /\ err' = Error("assertion", "", -1)
            /\ UNCHANGED <<calc, result, ops, stages>>
    /\ UNCHANGED <<subscripts, ioperands, converted_inputs, input_subscripts,
                   output_subscript, input_subscripts_list, i, i_parsers>>

Pipeline ==
    \/ ParseSubscripts
    \/ OperandStage
    \/ PickLabel
    \/ DiagonalStep
    \/ OperandDone
    \/ Combine
    \/ Summed
    \/ Transposed

Next == Call \/ ConvertInputs \/ Pipeline

Spec == Init /\ [][Next]_vars

\* ------------------------------------------- the law specification
\* A second specification runs the same pipeline on longer expressions than
\* Call enumerates: calls whose expression passed lines 153-174, taken at
\* line 184 with their operands converted.

\* the element values of the matrices of the matrix-product inputs
Elems == {0, 1}

AllArrays(shape) ==
    {[shape |-> shape, dtype |-> "int64", data |-> d] : d \in [Indices(shape) -> Elems]}

\* one operand of rank Len(s) for every subscript s of at most MaxSub labels,
\* every axis of extent 1 or Extent, with and without an explicit output
\* that keeps every label
SingleInputs ==
    UNION {
      UNION {
        {[subscripts |-> s, operands |-> <<Arange(shape, 1)>>],
         [subscripts |-> s \o <<"-", ">">> \o Distinct(s),
          operands |-> <<Arange(shape, 1)>>]} :
        shape \in [1..Len(s) -> {1, Extent}]} :
      s \in Strings({"i", "j"}, MaxSub)}

\* 'ij,jk->ik' with A of shape (m,n) and B of shape (n,p): one factor runs
\* over all matrices with elements in Elems, the other is filled like
\* shaped_arange
MatmulExpr == <<"i", "j", ",", "j", "k", "-", ">", "i", "k">>
MatmulInputs ==
    UNION {
      {[subscripts |-> MatmulExpr, operands |-> <<A, Arange(<<d[2], d[3]>>, 1)>>] :
          A \in AllArrays(<<d[1], d[2]>>)}
      \cup
      {[subscripts |-> MatmulExpr, operands |-> <<Arange(<<d[1], d[2]>>, 1), B>>] :
          B \in AllArrays(<<d[2], d[3]>>)} :
      d \in (1..MaxM) \X (1..MaxN) \X (1..MaxP)}

\* two vectors of lengths up to MaxM and MaxP under 'i,j->ij', 'i,i->i' and
\* 'i,i': one vector runs over all vectors with elements in Elems, or both are
\* filled like shaped_arange and run over all pairs of element types
OuterExpr == <<"i", ",", "j", "-", ">", "i", "j">>
VectorExprs ==
    {OuterExpr, <<"i", ",", "i", "-", ">", "i">>, <<"i", ",", "i">>}
VectorInputs ==
    UNION {
      {[subscripts |-> d[3], operands |-> <<v, Arange(<<d[2]>>, 2)>>] :
          v \in AllArrays(<<d[1]>>)}
      \cup
      {[subscripts |-> d[3], operands |-> <<Arange(<<d[1]>>, 1), w>>] :
          w \in AllArrays(<<d[2]>>)}
      \cup
      {[subscripts |-> d[3],
        operands |-> <<AsType(Arange(<<d[1]>>, 1), t[1]),
                       AsType(Arange(<<d[2]>>, 2), t[2])>>] :
          t \in DTypes \X DTypes} :
      d \in (1..MaxM) \X (1..MaxP) \X VectorExprs}

\* one label on axes of extents Extent and Extent + 1: within one operand
\* ('ii') and across two operands ('i,i->i')
MismatchInputs ==
    {[subscripts |-> <<"i", "i">>,
      operands |-> <<Arange(<<Extent, Extent + 1>>, 1)>>],
     [subscripts |-> <<"i", ",", "i", "-", ">", "i">>,
      operands |-> <<Arange(<<Extent>>, 1), Arange(<<Extent + 1>>, 1)>>]}

LawInputs == SingleInputs \cup MatmulInputs \cup VectorInputs \cup MismatchInputs

InitLaws ==
    /\ pc = "parse"
    /\ \E inp \in LawInputs :
         /\ subscripts = inp.subscripts
         /\ ioperands = inp.operands
         /\ converted_inputs = ConvertAll(inp.operands)
         /\ ops = [k \in 1..Len(inp.operands) |-> "astype"]
    /\ input_subscripts = <<>>
    /\ output_subscript = <<>>
    /\ input_subscripts_list = <<>>
    /\ i = 0
    /\ i_parsers = <<>>
    /\ calc = NoCalc
    /\ result = NoArray
    /\ err = NoError
    /\ stages = <<>>

SpecLaws == InitLaws /\ [][Pipeline]_vars

\* both families of calls: every action of einsum runs on each
InitAll == Init \/ InitLaws
SpecAll == InitAll /\ [][Next]_vars

\* ------------------------------------------------------------- claims
\* the expression got past lines 153-190 and the output subscript is set
Parsed ==
    /\ pc \notin {"call", "convert", "parse"}
    /\ err.kind \notin {"ellipsis", "invalid_subscript", "malformed_arrow"}

\* no validation error up to and including the rank check of the last operand
Validated ==
    \/ pc \in {"combine", "single2", "sum", "transpose", "done"}
    \/ pc = "error" /\ err.kind = "assertion"

PairwiseDistinct(s) == \A p, q \in 1..Len(s) : s[p] = s[q] => p = q

\* the 1-based position of the only occurrence of label in s
PosOf(s, label) == CHOOSE p \in 1..Len(s) : s[p] = label

\* array r is array x with its axes rearranged so that axis k of r is the
\* axis of x labelled to[k], x's axes being labelled by from
IsRelabelled(r, to, x, from) ==
    /\ Ndim(r) = Len(to)
    /\ Ndim(x) = Len(from)
    /\ \A k \in 1..Len(to) : r.shape[k] = x.shape[PosOf(from, to[k])]
    /\ \A idx \in Indices(r.shape) :
         r.data[idx] = x.data[[p \in 1..Len(from) |-> idx[PosOf(to, from[p])]]]

\* C1: once every validation check has passed, the two assertions of
\* TransposedViewCalculator.__init__ hold for the subscript SummedViewCalculator
\* produced, so no AssertionError occurs.
C1_AssertionsHold ==
    /\ pc = "transpose" => TransposedAsserts(calc.subscript, output_subscript)
    /\ err.kind # "assertion"

\* C2: a returned array has rank len(output_subscript) and its axis k is the
\* axis labelled output_subscript[k] of the array handed to
\* TransposedViewCalculator.
C2_ResultFollowsOutput ==
    pc = "done" =>
        /\ PairwiseDistinct(calc.subscript)
        /\ PairwiseDistinct(output_subscript)
        /\ IsRelabelled(result, output_subscript, calc.ioperand, calc.subscript)

C2_Witness ==
    /\ pc = "done"
    /\ Len(output_subscript) >= 2
    /\ output_subscript # calc.subscript
    /\ result # calc.ioperand

\* C3: after every stage and after every diagonal/rollaxis step the length of
\* the stage's subscript equals the rank of its array.
C3_SubscriptLenIsRank ==
    /\ calc.kind \in {"single", "summed"} => Len(calc.subscript) = Ndim(calc.result)
    /\ calc.kind = "transposed" => Len(output_subscript) = Ndim(calc.result)
    /\ \A k \in 1..Len(i_parsers) :
         Len(i_parsers[k].subscript) = Ndim(i_parsers[k].result)
    /\ pc = "done" => Len(output_subscript) = Ndim(result)

C3_Witness ==
    /\ pc = "done"
    /\ Len(ioperands) = 2
    /\ \E p \in 1..Len(ops) : ops[p] = "diagonal"
    /\ \E p \in 1..Len(ops) : ops[p] = "sum"
    /\ \E p \in 1..Len(ops) : ops[p] = "transpose"

\* sum over j < n of A[i,j] * B[j,k]
RECURSIVE DotRow(_, _, _, _, _)
DotRow(A, B, row, col, n) ==
    IF n = 0 THEN 0
    ELSE DotRow(A, B, row, col, n - 1)
           + A.data[<<row, n - 1>>] * B.data[<<n - 1, col>>]

\* C4: einsum('ij,jk->ik', A, B) returns the matrix product, reached by the
\* outer product, the diagonal collapse of j, the sum over j and the
\* (identity) transposition.
C4_MatrixProduct ==
    (pc = "done" /\ subscripts = MatmulExpr) =>
        LET A == ioperands[1]
            B == ioperands[2]
        IN  /\ result.shape = <<A.shape[1], B.shape[2]>>
            /\ \A idx \in Indices(result.shape) :
                 result.data[idx] = DotRow(A, B, idx[1], idx[2], A.shape[2])
            /\ stages = <<"single", "single", "combined", "single", "summed",
                          "transposed">>
            /\ ops = <<"astype", "astype", "tensordot", "diagonal", "rollaxis",
                       "sum", "astype">>

C4_Witness ==
    /\ pc = "done"
    /\ subscripts = MatmulExpr
    /\ ioperands[1].shape = <<2, 2>>
    /\ ioperands[2].shape = <<2, 2>>
    /\ result.data[<<1, 0>>] > 1

\* the subscript a finished SingleViewCalculator started from
SingleInput ==
    IF pc = "single" THEN input_subscripts_list[i + 1]
    ELSE Join([k \in 1..Len(i_parsers) |-> i_parsers[k].subscript])

\* C5: SingleViewCalculator computes the generalized diagonal: one result
\* axis per distinct label, R[v] = X[w] with w[p] the value v gives to label
\* s[p]; einsum('ii->i', A) is the vector of A[k,k].
C5_GeneralizedDiagonal ==
    /\ (pc \in {"single", "single2"} /\ SingleFinished(calc)) =>
         LET s == SingleInput
             X == calc.ioperand
             R == calc.result
             t == calc.subscript
         IN  /\ Ndim(R) = Cardinality(CharSet(s))
             /\ Len(t) = Ndim(R)
             /\ CharSet(t) = CharSet(s)
             /\ \A q \in 1..Len(t) : \A p \in 1..Len(s) :
                  s[p] = t[q] => R.shape[q] <= X.shape[p]
             /\ \A q \in 1..Len(t) : \E p \in 1..Len(s) :
                  s[p] = t[q] /\ R.shape[q] = X.shape[p]
             /\ \A v \in Indices(R.shape) :
                  R.data[v] = X.data[[p \in 1..Len(s) |-> v[PosOf(t, s[p])]]]
    /\ (pc = "done" /\ subscripts = <<"i", "i", "-", ">", "i">>) =>
         /\ result.shape = <<Min(ioperands[1].shape[1], ioperands[1].shape[2])>>
         /\ \A v \in Indices(result.shape) :
              result.data[v] = ioperands[1].data[<<v[1], v[1]>>]

\* a rank-4 operand whose four axes carry two labels, collapsed to two axes
C5_Witness ==
    /\ pc = "single"
    /\ SingleFinished(calc)
    /\ Len(SingleInput) = 4
    /\ Len(calc.subscript) = 2
    /\ SingleInput[1] # SingleInput[2]
    /\ calc.ioperand.shape = <<2, 2, 2, 2>>

C7_ImplicitOutput ==
    (Parsed /\ FindArrow(subscripts) = -1) =>
        LET all == Remove(subscripts, ",")
        IN  /\ \A c \in CharSet(all) :
                 c \in CharSet(output_subscript) <=> Count(all, c) = 1
            /\ CharSet(output_subscript) \subseteq CharSet(all)
            /\ \A p, q \in 1..Len(output_subscript) :
                 p < q => Code(output_subscript[p]) < Code(output_subscript[q])

\* an uppercase label sorted before a lowercase one, and a label shared by
\* two operands left out
C7_Witness ==
    /\ Parsed
    /\ subscripts = <<"i", "i", ",", "i", "B">>
    /\ output_subscript = <<"B">>

\* C8: every label of an expression that passed validation is a letter: the
\* input subscripts and the output subscript hold letters only.
C8_LabelsAreLetters ==
    Validated =>
        /\ \A k \in 1..Len(input_subscripts_list) :
             CharSet(input_subscripts_list[k]) \subseteq Letters
        /\ CharSet(output_subscript) \subseteq Letters

\* a '-' of s that is last or not followed by '>'
LoneDash(s) ==
    \E p \in 1..Len(s) : s[p] = "-" /\ (p = Len(s) \/ s[p + 1] # ">")

\* C9: a stripped expression with any '-' that is last or not followed by '>'
\* fails with the malformed-arrow error.
C9_EveryLoneDashRejected ==
    (/\ pc \notin {"call", "convert", "parse"}
     /\ err.kind \notin {"ellipsis", "invalid_subscript"}
     /\ LoneDash(subscripts)) => err.kind = "malformed_arrow"

\* the characters of the output side that occur in no operand's subscript
AbsentFromOperands(s) ==
    LET list == Split(InputSide(s))
    IN  {c \in CharSet(OutputSide(s)) :
            \A k \in 1..Len(list) : c \notin CharSet(list[k])}

\* C10: with '->' present, an output character that occurs in no operand's
\* input subscript makes einsum fail with the unknown-output-label error
\* naming such a character, whatever else is wrong with the call.
C10_UnknownOutputLabel ==
    (/\ Parsed
     /\ FindArrow(subscripts) # -1
     /\ AbsentFromOperands(subscripts) # {}) =>
        /\ err.kind = "unknown_output_label"
        /\ err.pickup \in AbsentFromOperands(subscripts)

\* C11: with '->' present and every output character on the input side, an
\* output subscript that repeats a character fails with the
\* repeated-output-label error naming a repeated character, before the operand
\* count or any rank is looked at; no accepted expression repeats an output
\* character.
C11_RepeatedOutputLabel ==
    /\ (/\ Parsed
        /\ FindArrow(subscripts) # -1
        /\ CharSet(OutputSide(subscripts)) \subseteq CharSet(InputSide(subscripts))
        /\ ~PairwiseDistinct(OutputSide(subscripts))) =>
           /\ pc = "error"
           /\ err.kind = "repeated_output_label"
           /\ Count(OutputSide(subscripts), err.pickup) >= 2
           /\ input_subscripts_list = <<>>
           /\ stages = <<>>
    /\ pc \in {"operand", "single", "combine", "single2", "sum", "transpose", "done"}
         => PairwiseDistinct(output_subscript)

\* the repeated label is reported although the operand count is wrong too
C11_Witness ==
    /\ err.kind = "repeated_output_label"
    /\ err.pickup = "i"
    /\ Len(ioperands) = 2
    /\ Len(Split(InputSide(subscripts))) = 1

\* the expression got as far as the operand count check of lines 216-222
Counted ==
    /\ Parsed
    /\ err.kind \notin {"unknown_output_label", "repeated_output_label"}

\* C12: with fewer operands than input subscripts einsum raises the 'fewer
\* operands provided' error, with more operands than input subscripts the
\* 'more operands provided' error, and each message only then.
C12_OperandCountMessages ==
    Counted =>
        LET operand_count == Len(ioperands)
            subscript_count == Len(Split(InputSide(subscripts)))
        IN  /\ err.kind = "fewer_operands" <=> operand_count < subscript_count
            /\ err.kind = "more_operands" <=> operand_count > subscript_count

\* the lowest operand index whose subscript length differs from its rank
Mismatched ==
    {k \in 1..Len(input_subscripts_list) :
        Len(input_subscripts_list[k]) # Ndim(converted_inputs[k])}
FirstMismatched == CHOOSE k \in Mismatched : \A l \in Mismatched : k <= l

\* C13: with matching operand count, the lowest-index operand whose subscript
\* length differs from its rank stops the call with the rank error of its
\* direction, and no view calculator ever runs on an operand whose subscript
\* length differs from its rank.
C13_RankMismatch ==
    /\ (/\ Counted
        /\ err.kind \notin {"fewer_operands", "more_operands"}
        /\ Mismatched # {}) =>
           LET k == FirstMismatched
               too_many == Len(input_subscripts_list[k]) > Ndim(converted_inputs[k])
           IN  /\ pc \in {"operand", "single", "error"}
               /\ pc = "operand" => i <= k - 1
               /\ pc = "single" => i < k - 1
               /\ pc = "error" =>
                    /\ Len(i_parsers) = k - 1
                    /\ err.kind = IF too_many THEN "too_many_subscripts"
                                  ELSE "more_dimensions"
                    /\ too_many => err.operand = k - 1
    /\ err.kind \in {"too_many_subscripts", "more_dimensions"} =>
         /\ Counted
         /\ Mismatched # {}
    /\ pc = "single" =>
         Len(input_subscripts_list[i + 1]) = Ndim(calc.ioperand)
    /\ \A k \in 1..Len(i_parsers) :
         Len(input_subscripts_list[k]) = Ndim(i_parsers[k].ioperand)

\* the second operand is rejected after the first one was accepted
C13_Witness ==
    /\ pc = "error"
    /\ err.kind = "more_dimensions"
    /\ Len(i_parsers) = 1
    /\ Len(input_subscripts_list[1]) = 2

\* the errors of the validation checks of lines 153-234
ValidationErrors ==
    {"ellipsis", "invalid_subscript", "malformed_arrow", "unknown_output_label",
     "repeated_output_label", "fewer_operands", "more_operands",
     "too_many_subscripts", "more_dimensions"}

\* C14: a call that ends in a validation error has issued no array operation
\* before the error: no conversion of an operand, no diagonal or axis roll on
\* an earlier operand.
C14_NoArrayOpBeforeError ==
    (pc = "error" /\ err.kind \in ValidationErrors) => ops = <<>>

\* C15: an expression that contains '.' fails with the ellipsis error,
\* whatever else is wrong with it, and before any operand is converted.
C15_Ellipsis ==
    (pc # "call" /\ "." \in CharSet(subscripts)) =>
        /\ pc = "error"
        /\ err = Error("ellipsis", "", -1)
        /\ ioperands = <<>>
        /\ converted_inputs = <<>>
        /\ ops = <<>>

\* the ellipsis error wins over an irregular character and a lone dash
C15_Witness ==
    /\ err.kind = "ellipsis"
    /\ "$" \in CharSet(subscripts)
    /\ Find(subscripts, "-") = Len(subscripts) - 1

\* the characters of s outside the ASCII letters and ',', '-', '>'
OutsideAlphabet(s) ==
    {c \in CharSet(s) :
        /\ Code(c) \notin (65..90) \cup (97..122)
        /\ c \notin {",", "-", ">"}}

\* C16: an expression without '.' whose characters, spaces removed, are not all
\* letters or ',', '-', '>' fails with the invalid-subscript error naming one
\* of the offending characters; an expression within that alphabet never does.
C16_InvalidSubscript ==
    (pc # "call" /\ "." \notin CharSet(subscripts)) =>
        /\ " " \notin CharSet(subscripts)
        /\ OutsideAlphabet(subscripts) # {} =>
             /\ pc = "error"
             /\ err.kind = "invalid_subscript"
             /\ err.pickup \in OutsideAlphabet(subscripts)
             /\ ops = <<>>
        /\ OutsideAlphabet(subscripts) = {} => err.kind # "invalid_subscript"

\* the irregular character is named although the arrow is malformed as well
C16_Witness ==
    /\ err.kind = "invalid_subscript"
    /\ err.pickup = "$"
    /\ CharSet(subscripts) = {"i", "-", "$"}

\* t holds every label of s once, in the order of their first occurrences in s
FirstOccurrences(t, s) ==
    /\ PairwiseDistinct(t)
    /\ CharSet(t) = CharSet(s)
    /\ \A p, q \in 1..Len(t) : p < q => Find(s, t[p]) < Find(s, t[q])

\* C17: the subscript SingleViewCalculator ends with holds every label of the
\* subscript it started from exactly once, in first-occurrence order.
C17_SingleSubscript ==
    /\ (pc \in {"single", "single2"} /\ SingleFinished(calc)) =>
          FirstOccurrences(calc.subscript, SingleInput)
    /\ \A k \in 1..Len(i_parsers) :
          FirstOccurrences(i_parsers[k].subscript, input_subscripts_list[k])

\* a label between the two occurrences of an earlier one keeps its place
C17_Witness ==
    /\ pc = "single"
    /\ SingleFinished(calc)
    /\ SingleInput = <<"i", "j", "i", "j">>
    /\ calc.subscript = <<"i", "j">>

\* the sum of the ranks of the first k operands of CombinedViewCalculator
RECURSIVE RankSum(_, _)
RankSum(parsers, k) ==
    IF k = 0 THEN 0 ELSE RankSum(parsers, k - 1) + Ndim(parsers[k].result)

\* the product of the elements the first k operands have at their slices of idx
RECURSIVE ElementProduct(_, _, _)
ElementProduct(parsers, idx, k) ==
    IF k = 0 THEN 1
    ELSE LET offset == RankSum(parsers, k - 1)
             slice == SubSeq(idx, offset + 1, offset + Ndim(parsers[k].result))
         IN  ElementProduct(parsers, idx, k - 1) * parsers[k].result.data[slice]

\* C18: CombinedViewCalculator yields the operand subscripts concatenated in
\* operand order and an array whose rank is the sum of the operand ranks and
\* whose element at a concatenated index is the product of the operands'
\* elements at their slices, shared labels not summed;
\* einsum('i,j->ij', v, w)[a,b] = v[a] * w[b].
C18_OuterProduct ==
    /\ pc = "single2" =>
         LET n == Len(i_parsers)
             X == calc.ioperand
         IN  /\ Ndim(X) = RankSum(i_parsers, n)
             /\ X.shape = Join([k \in 1..n |-> i_parsers[k].result.shape])
             /\ \A idx \in Indices(X.shape) :
                  X.data[idx] = ElementProduct(i_parsers, idx, n)
             /\ Len(calc.subscript) = Ndim(X) =>
                  calc.subscript = Join([k \in 1..n |-> i_parsers[k].subscript])
    /\ (pc = "done" /\ subscripts = OuterExpr) =>
         /\ result.shape = ioperands[1].shape \o ioperands[2].shape
         /\ \A a \in 0..(result.shape[1] - 1), b \in 0..(result.shape[2] - 1) :
              result.data[<<a, b>>] = ioperands[1].data[<<a>>] * ioperands[2].data[<<b>>]

\* an outer product of two vectors that is not symmetric
C18_Witness ==
    /\ pc = "done"
    /\ subscripts = OuterExpr
    /\ result.shape = <<2, 2>>
    /\ result.data[<<0, 1>>] # result.data[<<1, 0>>]

\* the 1-based positions of s whose label occurs in out, in increasing order
KeptPositions(s, out) ==
    LET Kept(p) == s[p] \in CharSet(out)
    IN  SelectSeq([p \in 1..Len(s) |-> p], Kept)

\* array r is array x summed over every axis that is not in kept
IsSummedOver(r, x, kept) ==
    /\ r.shape = [q \in 1..Len(kept) |-> x.shape[kept[q]]]
    /\ \A idx \in Indices(r.shape) :
         r.data[idx] =
           SumOver(x.data, {src \in Indices(x.shape) :
                              \A q \in 1..Len(kept) : src[kept[q]] = idx[q]})

\* the step of SummedViewCalculator took a unique-label subscript to the
\* subscript and array of the labels that occur in the output
SummedStepKeepsOutputLabels ==
    (pc' = "transpose" /\ PairwiseDistinct(calc.subscript)) =>
        LET kept == KeptPositions(calc.subscript, output_subscript)
        IN  /\ calc'.subscript = [q \in 1..Len(kept) |-> calc.subscript[kept[q]]]
            /\ IsSummedOver(calc'.result, calc.result, kept)

\* C19: SummedViewCalculator, on a subscript of unique labels, removes exactly
\* the labels absent from the output, keeping the order of the others, sums
\* exactly the axes of the removed labels, and leaves a label set equal to the
\* set of characters of the output subscript.
C19_SummedLabels ==
    [][/\ SummedStepKeepsOutputLabels
       /\ pc' = "transpose" => CharSet(calc'.subscript) = CharSet(output_subscript)]_vars

\* C20: when SummedViewCalculator sums at least one axis its result has the
\* element type of its input array, and the array einsum returns has the
\* common element type of the operands.
C20_SummedKeepsDType ==
    /\ (calc.kind = "summed" /\ Ndim(calc.result) < Ndim(calc.ioperand)) =>
          calc.result.dtype = calc.ioperand.dtype
    /\ pc = "done" =>
          /\ result.dtype = ResultType(ioperands)
          /\ \A k \in 1..Len(converted_inputs) :
                converted_inputs[k].dtype = result.dtype

\* two int32 vectors summed to a scalar, where sum() alone would widen
C20_Witness ==
    /\ pc = "done"
    /\ Len(ioperands) = 2
    /\ ioperands[1].dtype = "int32"
    /\ ioperands[2].dtype = "int32"
    /\ calc.ioperand.shape = <<>>
    /\ \E k \in 1..Len(ops) : ops[k] = "sum"
    /\ result.dtype = "int32"

\* a transpose was issued during the call
TransposeIssued == \E k \in 1..Len(ops) : ops[k] = "transpose"

\* array r is array x with axis orders[k] of x as its axis k
IsPermutedBy(r, x, orders) ==
    /\ r.shape = [k \in 1..Len(orders) |-> x.shape[orders[k] + 1]]
    /\ \A idx \in Indices(r.shape) :
         \E src \in Indices(x.shape) :
            /\ \A k \in 1..Len(orders) : src[orders[k] + 1] = idx[k]
            /\ r.data[idx] = x.data[src]

\* C21: TransposedViewCalculator issues a transpose exactly when the output
\* subscript differs from its input subscript; when the positions of the output
\* labels in the input subscript ascend it returns the array it was given, and
\* otherwise that array permuted by the position list.
C21_TransposeOnlyWhenNeeded ==
    pc = "done" =>
        LET orders == [k \in 1..Len(output_subscript) |->
                         PosOf(calc.subscript, output_subscript[k]) - 1]
            ascending == \A p, q \in 1..Len(orders) : p < q => orders[p] < orders[q]
        IN  /\ ascending <=> output_subscript = calc.subscript
            /\ TransposeIssued <=> output_subscript # calc.subscript
            /\ ascending => result = calc.ioperand
            /\ ~ascending => IsPermutedBy(result, calc.ioperand, orders)

\* a matrix whose output order is its own: returned as it came, no transpose
C21_Witness ==
    /\ pc = "done"
    /\ calc.subscript = <<"i", "j">>
    /\ output_subscript = <<"i", "j">>
    /\ calc.ioperand.shape = <<Extent, Extent>>
    /\ result = calc.ioperand
    /\ ~TransposeIssued

\* the array operations einsum issues; each returns a new array or a view
NonWritingOps == {"astype", "diagonal", "rollaxis", "tensordot", "sum", "transpose"}

\* C22: from the moment the caller's operands are passed, no step of a call,
\* successful or failing, changes their contents, shape or element type, and
\* every array operation issued is one that returns a new array or a view.
C22_OperandsUnchanged ==
    [][/\ ioperands # <<>> => ioperands' = ioperands
       /\ \A k \in 1..Len(ops') : ops'[k] \in NonWritingOps]_vars

\* a call that took a diagonal and a sum of its operand and left it as passed
C22_Witness ==
    /\ pc = "done"
    /\ subscripts = <<"i", "i">>
    /\ ioperands = <<Arange(<<Extent, Extent>>, 1)>>
    /\ \E k \in 1..Len(ops) : ops[k] = "diagonal"
    /\ \E k \in 1..Len(ops) : ops[k] = "sum"
    /\ result.shape = <<>>

\* C23: whatever order the label set is iterated in, SingleViewCalculator ends
\* with the same subscript and the same array, that is the same merging of
\* original axes into result axes, although the subscript is rewritten while
\* the label set computed up front is iterated.
C23_LabelOrderIrrelevant ==
    (pc \in {"single", "single2"} /\ SingleFinished(calc)) =>
        \A order \in LabelOrders(CharSet(SingleInput)) :
            LET c == RunSingle(SingleViewCalculator(calc.ioperand, SingleInput), order)
            IN  /\ c.subscript = calc.subscript
                /\ c.result = calc.result

\* two repeated labels, the inner one visited last
C23_Witness ==
    /\ pc = "single"
    /\ SingleFinished(calc)
    /\ SingleInput = <<"i", "j", "j", "i">>
    /\ calc.ioperand.shape = <<Extent, Extent, Extent, Extent>>
    /\ calc.first = 1

\* the stages of a successful call on n operands, in order
ExpectedStages(n) ==
    [k \in 1..n |-> "single"]
      \o (IF n >= 2 THEN <<"combined", "single">> ELSE <<>>)
      \o <<"summed", "transposed">>

IsPrefix(s, t) == Len(s) <= Len(t) /\ s = SubSeq(t, 1, Len(s))

\* each stage of the step just taken worked on the previous stage's result
StageInputIsPreviousResult ==
    /\ (pc = "operand" /\ pc' = "single") =>
          /\ Len(i_parsers) = i
          /\ calc'.ioperand = converted_inputs[i + 1]
    /\ (pc = "single" /\ pc' # "single") => i_parsers' = Append(i_parsers, calc)
    /\ (pc = "combine" /\ pc' = "single2") =>
          /\ Len(ioperands) >= 2
          /\ calc'.ioperand.shape =
               Join([k \in 1..Len(i_parsers) |-> i_parsers[k].result.shape])
          /\ \A idx \in Indices(calc'.ioperand.shape) :
               calc'.ioperand.data[idx] = ElementProduct(i_parsers, idx, Len(i_parsers))
    /\ (pc = "combine" /\ pc' = "sum") =>
          /\ Len(ioperands) = 1
          /\ calc' = i_parsers[1]
          /\ ops' = ops
    /\ pc' = "transpose" =>
          /\ calc.kind = "single"
          /\ calc'.kind = "summed"
          /\ calc'.ioperand = calc.result
    /\ pc' = "done" =>
          /\ calc.kind = "summed"
          /\ calc'.kind = "transposed"
          /\ calc'.ioperand = calc.result
          /\ result' = calc'.result

\* C24: a successful call runs SingleViewCalculator on each operand in operand
\* order, then for two or more operands (and only then) CombinedViewCalculator
\* and one more SingleViewCalculator, then SummedViewCalculator, then
\* TransposedViewCalculator, each once and each on the previous stage's result.
C24_StageOrder ==
    [][/\ ioperands' # <<>> => IsPrefix(stages', ExpectedStages(Len(ioperands')))
       /\ pc' = "done" => stages' = ExpectedStages(Len(ioperands'))
       /\ StageInputIsPreviousResult]_vars

\* two operands: both collapsed, combined, collapsed again, summed, transposed
C24_Witness ==
    /\ pc = "done"
    /\ subscripts = <<"i", ",", "i", "-", ">", "i">>
    /\ stages = <<"single", "single", "combined", "single", "summed", "transposed">>
    /\ ops = <<"astype", "astype", "tensordot", "diagonal", "rollaxis">>

\* C25: the malformed-arrow error is raised only for expressions that contain
\* a '-'; an expression without one, the empty expression included, passes the
\* arrow check.
C25_ArrowErrorNeedsDash ==
    err.kind = "malformed_arrow" => "-" \in CharSet(subscripts)

\* the extents the operands give to a label
ExtentsOf(label) ==
    UNION {
      {converted_inputs[k].shape[p] :
          p \in {q \in 1..Len(input_subscripts_list[k]) :
                   input_subscripts_list[k][q] = label}} :
      k \in 1..Len(input_subscripts_list)}

\* C26: einsum returns no result when a label is attached to axes of
\* different extents, within one operand or across operands.
C26_MismatchedExtentsRejected ==
    pc = "done" =>
        \A label \in CharSet(Join(input_subscripts_list)) :
            Cardinality(ExtentsOf(label)) = 1

=============================================================================
